---- MODULE Spec2Model ----
(***************************************************************************)
(* State-machine model of the hardware-telemetry monitor.                  *)
(*                                                                         *)
(*   Spec    the polling loop of pc_stats_monitor_v2.py (run_monitoring    *)
(*           and the run_minimized monitoring thread): health monitor,    *)
(*           value cache, status computation and the emitted datagram.     *)
(*   SpecHM  LHMHealthMonitor driven by arbitrary call sequences.          *)
(*   SpecHW  the polling loop of pc_stats_monitor_hwinfo.py.               *)
(***************************************************************************)
EXTENDS Integers, Sequences, FiniteSets, TLC

\* ------------------------------------------------------------------ bounds
\* Largest number of configured metrics explored.
MaxMetrics == 3
\* Largest extra time (s) one tick may take on top of its sleep.
MaxDelay == 2
\* Largest failure count explored when the monitor is driven directly.
MaxFailures == 5
\* Number of clock steps explored when the monitor is driven directly.
MaxClockSteps == 4
\* Largest number of configured metrics explored for the HWiNFO script.
MaxHwMetrics == 2

\* ------------------------------------------------------- program constants
STATUS_OK == 1
STATUS_API_ERROR == 2
STATUS_LHM_NOT_RUNNING == 3
STATUS_LHM_STARTING == 4
STATUS_UNKNOWN_ERROR == 5
\* record_failure: "if self.consecutive_failures >= 2"
FAILURE_THRESHOLD == 2
\* DEFAULT_CONFIG["update_interval"]
UPDATE_INTERVAL == 3
\* run_monitoring: "if current_time - last_lhm_check >= 5"
RECOVERY_CHECK_INTERVAL == 5
\* should_print_warning: "if now - self.last_warning_time >= 30"
WARNING_WINDOW == 30

\* Time since the last recovery check is told apart up to one second past
\* the check interval; the loop only compares it with the interval.
MaxSince == RECOVERY_CHECK_INTERVAL + 1

\* Python's None, and a returned integer v.
None == <<>>
Some(v) == <<v>>

\* Readings as the loop tells them apart: the legitimate reading 0 (also the
\* default send_metrics uses for an id it has never read) and another one.
Values == { 0, 1 }

Min(a, b) == IF a < b THEN a ELSE b

\* ---------------------------------------------------------------- state
VARIABLES
    \* --- pc_stats_monitor_v2.py
    config,              \* config["metrics"]: sequence of [id, source]
    use_rest_api,        \* module global use_rest_api
    minimized,           \* TRUE: run_minimized thread, FALSE: run_monitoring
    stop_event,          \* threading.Event of run_minimized
    lhm_health_monitor,  \* module global LHMHealthMonitor instance
    last_good_values,    \* the loop's value cache: id -> None | Some(v)
    since_check,         \* time.time() - last_lhm_check, up to MaxSince
    lhm,                 \* environment: "up" | "hung" | "down"
    pc,                  \* position of the polling loop
    current_status,      \* status code the loop passes to send_metrics
    idx,                 \* index of the next metric send_metrics reads
    has_fresh_data,      \* send_metrics local
    stale_count,         \* send_metrics local
    payload,             \* send_metrics local: [status, timestamp, metrics]
    sent,                \* sock.sendto calls made in this iteration
    success,             \* what send_metrics returned as success
    \* --- history of the current iteration (not program state)
    tick_unhealthy,      \* iteration began with use_rest_api and not is_healthy
    proc_seen,           \* what the first is_lhm_process_running() returned
    probe,               \* "none" | "noproc" | "failed" | "ok"
    fresh,               \* per metric read so far: did its read succeed
    last_read,           \* id -> most recent successfully read value
    probed,              \* a recovery probe has failed since the monitor
                         \* last became Unhealthy
    \* --- LHMHealthMonitor driven directly
    clock,               \* time.time()
    last_call,           \* last method called on the monitor
    \* --- pc_stats_monitor_hwinfo.py
    hw,                  \* its polling loop
    shm,                 \* HWiNFOReader and the shared-memory segment
    \* --- sensor discovery
    sel,                 \* source selection at startup
    gen,                 \* one discovery pass and its short names
    \* --- esp32-configurator
    mm                   \* MetricsModel

vars == << config, use_rest_api, minimized, stop_event, lhm_health_monitor,
           last_good_values, since_check, lhm, pc, current_status, idx,
           has_fresh_data, stale_count, payload, sent, success,
           tick_unhealthy, proc_seen, probe, fresh, last_read, probed,
           clock, last_call, hw, shm, sel, gen, mm >>

\* Everything outside the polling loop of pc_stats_monitor_v2.py.
offVars == << clock, last_call, hw, shm, sel, gen, mm >>

\* ------------------------------------------------------ LHMHealthMonitor
\* LHMHealthMonitor.__init__
NewHealthMonitor(now) ==
    [ consecutive_failures |-> 0,
      last_success_time    |-> now,
      is_healthy           |-> TRUE,
      last_warning_time    |-> 0 ]

\* LHMHealthMonitor.record_success
record_success(self, now) ==
    [ self EXCEPT !.consecutive_failures = 0,
                  !.last_success_time = now,
                  !.is_healthy = TRUE ]

\* A monitor that trips on the first failure.
record_failure_threshold1(self) ==
    LET n == self.consecutive_failures + 1
    IN  [ self EXCEPT !.consecutive_failures = n,
                      !.is_healthy = IF n >= 1 THEN FALSE ELSE @ ]

\* LHMHealthMonitor.record_failure
record_failure(self) ==
    LET n == self.consecutive_failures + 1
    IN  [ self EXCEPT !.consecutive_failures = n,
                      !.is_healthy = IF n >= FAILURE_THRESHOLD THEN FALSE ELSE @ ]

\* 2 ** k for k >= 0
RECURSIVE Pow2(_)
Pow2(k) == IF k <= 0 THEN 1 ELSE 2 * Pow2(k - 1)

\* A backoff that keeps doubling past the 30 s cap.
get_retry_delay_uncapped(self) ==
    IF self.consecutive_failures <= 1
    THEN 3
    ELSE 3 * Pow2(self.consecutive_failures - 1)

\* LHMHealthMonitor.get_retry_delay
get_retry_delay(self) ==
    IF self.consecutive_failures <= 1
    THEN 3
    ELSE Min(3 * Pow2(self.consecutive_failures - 1), 30)

\* LHMHealthMonitor.should_print_warning: <<result, monitor afterwards>>
should_print_warning(self, now) ==
    IF now - self.last_warning_time >= WARNING_WINDOW
    THEN << TRUE, [ self EXCEPT !.last_warning_time = now ] >>
    ELSE << FALSE, self >>

\* ------------------------------------------------ reading one metric (v2)
\* get_metric_value_via_http: one GET of /data.json with a 1 s timeout.
\* api_ok: the endpoint answered 200 with a parsable document; v: the value
\* found there (0 when the sensor is missing or its text does not parse).
get_metric_value_via_http(self, api_ok, v, now) ==
    IF api_ok
    THEN [ value |-> Some(v), raised |-> FALSE, hm |-> record_success(self, now) ]
    ELSE [ value |-> None, raised |-> FALSE, hm |-> record_failure(self) ]

\* get_metric_value without the "skip HTTP requests when the API is known
\* to be down" test.
get_metric_value_noSkip(metric_config, rest, self, src_ok, v, psutil_raises, now) ==
    IF metric_config.source = "psutil"
    THEN IF psutil_raises
         THEN [ value |-> None, raised |-> TRUE, hm |-> self ]
         ELSE [ value |-> Some(v), raised |-> FALSE, hm |-> self ]
    ELSE IF metric_config.source = "wmi"
    THEN IF rest
         THEN get_metric_value_via_http(self, src_ok, v, now)
         ELSE IF src_ok
              THEN [ value |-> Some(v), raised |-> FALSE, hm |-> self ]
              ELSE [ value |-> None, raised |-> FALSE, hm |-> self ]
    ELSE [ value |-> None, raised |-> FALSE, hm |-> self ]

\* get_metric_value of pc_stats_monitor_v2.py.
\*   psutil_raises: the psutil accessor raised (no handler in that branch)
\*   src_ok:        the WMI query / REST request succeeded
\* Result: the returned value, whether an exception left the function, and
\* the health monitor afterwards.
get_metric_value(metric_config, rest, self, src_ok, v, psutil_raises, now) ==
    IF metric_config.source = "psutil"
    THEN IF psutil_raises
         THEN [ value |-> None, raised |-> TRUE, hm |-> self ]
         ELSE [ value |-> Some(v), raised |-> FALSE, hm |-> self ]
    ELSE IF metric_config.source = "wmi"
    THEN IF rest
         THEN IF ~self.is_healthy
              THEN [ value |-> None, raised |-> FALSE, hm |-> self ]
              ELSE get_metric_value_via_http(self, src_ok, v, now)
         ELSE IF src_ok
              THEN [ value |-> Some(v), raised |-> FALSE, hm |-> self ]
              ELSE [ value |-> None, raised |-> FALSE, hm |-> self ]
    ELSE [ value |-> None, raised |-> FALSE, hm |-> self ]

\* ----------------------------------------------------------- send_metrics
\* send_metrics leaving a metric out of the payload when its read failed.
SendMetricsIter_skipStale(st, metric_id, value) ==
    IF value # None
    THEN [ cache          |-> [ st.cache EXCEPT ![metric_id] = value ],
           has_fresh_data |-> TRUE,
           stale_count    |-> st.stale_count,
           metrics        |-> Append(st.metrics,
                                [ id |-> metric_id, value |-> value[1] ]) ]
    ELSE [ cache          |-> st.cache,
           has_fresh_data |-> st.has_fresh_data,
           stale_count    |-> st.stale_count + 1,
           metrics        |-> st.metrics ]

\* send_metrics emitting 0 for a failed read instead of the cached value.
SendMetricsIter_zeroOnStale(st, metric_id, value) ==
    IF value # None
    THEN [ cache          |-> [ st.cache EXCEPT ![metric_id] = value ],
           has_fresh_data |-> TRUE,
           stale_count    |-> st.stale_count,
           metrics        |-> Append(st.metrics,
                                [ id |-> metric_id, value |-> value[1] ]) ]
    ELSE [ cache          |-> st.cache,
           has_fresh_data |-> st.has_fresh_data,
           stale_count    |-> st.stale_count + 1,
           metrics        |-> Append(st.metrics,
                                [ id |-> metric_id, value |-> 0 ]) ]

\* One pass of the "for metric_config in config['metrics']" loop.
\* st = [cache, has_fresh_data, stale_count, metrics]; value is what
\* get_metric_value returned.
SendMetricsIter(st, metric_id, value) ==
    IF value # None
    THEN [ cache          |-> [ st.cache EXCEPT ![metric_id] = value ],
           has_fresh_data |-> TRUE,
           stale_count    |-> st.stale_count,
           metrics        |-> Append(st.metrics,
                                [ id |-> metric_id, value |-> value[1] ]) ]
    ELSE [ cache          |-> st.cache,
           has_fresh_data |-> st.has_fresh_data,
           stale_count    |-> st.stale_count + 1,
           metrics        |-> Append(st.metrics,
                                [ id |-> metric_id,
                                  value |-> IF st.cache[metric_id] = None
                                            THEN 0
                                            ELSE st.cache[metric_id][1] ]) ]

\* A status override that also replaces a status other than OK.
OverallStatus_overrideAny(status_code, stale, total_metrics) ==
    IF total_metrics > 0 /\ stale >= total_metrics
    THEN STATUS_API_ERROR
    ELSE IF stale > 0 /\ 2 * stale >= total_metrics
    THEN STATUS_API_ERROR
    ELSE status_code

\* No status override at all.
OverallStatus_noOverride(status_code, stale, total_metrics) == status_code

\* The status override after the loop ("stale_count >= total_metrics * 0.5"
\* is compared in integers as 2 * stale_count >= total_metrics).
OverallStatus(status_code, stale, total_metrics) ==
    IF total_metrics > 0 /\ stale >= total_metrics
    THEN IF status_code = STATUS_OK THEN STATUS_API_ERROR ELSE status_code
    ELSE IF stale > 0 /\ 2 * stale >= total_metrics
    THEN IF status_code = STATUS_OK THEN STATUS_API_ERROR ELSE status_code
    ELSE status_code

\* A timestamp set on every packet.
Timestamp_always(fresh_data) == "HH:MM"

\* payload["timestamp"]: datetime.now().strftime('%H:%M') or "".
Timestamp(fresh_data) == IF fresh_data THEN "HH:MM" ELSE ""

\* is_lhm_process_running(): the process list holds a LibreHardwareMonitor.
is_lhm_process_running == lhm # "down"

\* check_rest_api_connectivity: 200, parsable, at least one sensor.
check_rest_api_connectivity == lhm = "up"

\* A recovery check made on every Unhealthy iteration.
ProbeDue_everyTick(elapsed) == TRUE

\* "if current_time - last_lhm_check >= 5": a recovery check is due.
ProbeDue(elapsed) == elapsed >= RECOVERY_CHECK_INTERVAL

\* ------------------------------------------------------- the polling loop
Sources == { "psutil", "wmi" }

\* Configurations the selector GUI saves: ids are 1..N in list order.
ConfigSet ==
    UNION { { [ i \in 1..n |-> [ id |-> i, source |-> f[i] ] ] :
                f \in [ 1..n -> Sources ] } : n \in 1..MaxMetrics }

\* No monitor method called yet / the other script is not running.
NoCall == [ name |-> "init", result |-> 0 ]
HwOff == [ pc |-> "off" ]
ShmOff == [ pc |-> "off" ]
SelOff == [ pc |-> "off" ]
GenOff == [ pc |-> "off" ]
MmOff == [ pc |-> "off" ]

NoPayload == [ status |-> STATUS_OK, timestamp |-> "", metrics |-> <<>> ]

Init ==
    /\ config \in ConfigSet
    /\ use_rest_api \in BOOLEAN
    /\ minimized \in BOOLEAN
    /\ stop_event = FALSE
    /\ lhm_health_monitor = NewHealthMonitor(0)
    /\ last_good_values = [ i \in 1..MaxMetrics |-> None ]
    /\ since_check = 0
    /\ lhm \in { "up", "hung", "down" }
    /\ pc = "loop"
    /\ current_status = STATUS_OK
    /\ idx = 1
    /\ has_fresh_data = FALSE
    /\ stale_count = 0
    /\ payload = NoPayload
    /\ sent = 0
    /\ success = FALSE
    /\ tick_unhealthy = FALSE
    /\ proc_seen = FALSE
    /\ probe = "none"
    /\ fresh = <<>>
    /\ last_read = [ i \in 1..MaxMetrics |-> None ]
    /\ probed = FALSE
    /\ clock = 0
    /\ last_call = NoCall
    /\ hw = HwOff
    /\ shm = ShmOff
    /\ sel = SelOff
    /\ gen = GenOff
    /\ mm = MmOff

\* Entry of send_metrics(sock, config, last_good_values, status).
EnterSendMetrics(status) ==
    /\ idx' = 1
    /\ has_fresh_data' = FALSE
    /\ stale_count' = 0
    /\ payload' = [ status |-> status, timestamp |-> "", metrics |-> <<>> ]
    /\ pc' = "read"

\* "while not stop_event.is_set()" found the event set: sock.close().
LoopExit ==
    /\ pc = "loop"
    /\ minimized /\ stop_event
    /\ pc' = "exited"
    /\ UNCHANGED << config, use_rest_api, minimized, stop_event,
                    lhm_health_monitor, last_good_values, since_check, lhm,
                    current_status, idx, has_fresh_data, stale_count, payload,
                    sent, success, tick_unhealthy, proc_seen, probe, fresh,
                    last_read, probed,
                    offVars >>

\* Top of an iteration: the status from the health monitor, and whether a
\* recovery probe is due.
LoopStart ==
    /\ pc = "loop"
    /\ ~(minimized /\ stop_event)
    /\ LET unhealthy == use_rest_api /\ ~lhm_health_monitor.is_healthy
           status == IF unhealthy
                     THEN IF is_lhm_process_running
                          THEN STATUS_API_ERROR
                          ELSE STATUS_LHM_NOT_RUNNING
                     ELSE STATUS_OK
       IN  /\ current_status' = status
           /\ tick_unhealthy' = unhealthy
           /\ proc_seen' = (unhealthy /\ is_lhm_process_running)
           /\ IF unhealthy /\ ProbeDue(since_check)
              THEN /\ pc' = "probe"
                   /\ UNCHANGED << idx, has_fresh_data, stale_count, payload >>
              ELSE EnterSendMetrics(status)
    /\ UNCHANGED << config, use_rest_api, minimized, stop_event,
                    lhm_health_monitor, last_good_values, since_check, lhm,
                    sent, success, probe, fresh, last_read, probed,
                    offVars >>

\* The recovery attempt: last_lhm_check = current_time, then the process
\* check and, when the process is there, the REST probe.
Probe ==
    /\ pc = "probe"
    /\ since_check' = 0
    /\ LET ok == is_lhm_process_running /\ check_rest_api_connectivity
           status == IF ok THEN STATUS_OK ELSE current_status
       IN  /\ probe' = IF ~is_lhm_process_running THEN "noproc"
                       ELSE IF ok THEN "ok" ELSE "failed"
           /\ lhm_health_monitor' = IF ok
                                    THEN record_success(lhm_health_monitor, clock)
                                    ELSE lhm_health_monitor
           /\ current_status' = status
           /\ probed' = ~ok
           /\ EnterSendMetrics(status)
    /\ UNCHANGED << config, use_rest_api, minimized, stop_event,
                    last_good_values, lhm, sent, success, tick_unhealthy,
                    proc_seen, fresh, last_read, offVars >>

\* One pass of the loop inside send_metrics: read the metric, then use the
\* value or the cache.  An exception raised by the read leaves send_metrics
\* and the polling loop (run_monitoring only handles KeyboardInterrupt).
ReadMetric ==
    /\ pc = "read"
    /\ idx <= Len(config)
    /\ LET metric_config == config[idx]
       IN  \E v \in Values :
           \E psutil_raises \in
                IF metric_config.source = "psutil" THEN BOOLEAN ELSE { FALSE } :
             LET r == get_metric_value(metric_config, use_rest_api,
                                       lhm_health_monitor, lhm = "up", v,
                                       psutil_raises, clock)
                 st == SendMetricsIter(
                         [ cache          |-> last_good_values,
                           has_fresh_data |-> has_fresh_data,
                           stale_count    |-> stale_count,
                           metrics        |-> payload.metrics ],
                         metric_config.id, r.value)
             IN  IF r.raised
                 THEN /\ pc' = "crashed"
                      /\ UNCHANGED << lhm_health_monitor, last_good_values,
                                      idx, has_fresh_data, stale_count,
                                      payload, fresh, last_read >>
                 ELSE /\ lhm_health_monitor' = r.hm
                      /\ last_good_values' = st.cache
                      /\ has_fresh_data' = st.has_fresh_data
                      /\ stale_count' = st.stale_count
                      /\ payload' = [ payload EXCEPT !.metrics = st.metrics ]
                      /\ idx' = idx + 1
                      /\ fresh' = Append(fresh, r.value # None)
                      /\ last_read' = IF r.value # None
                                      THEN [ last_read EXCEPT
                                               ![metric_config.id] = r.value ]
                                      ELSE last_read
                      /\ pc' = "read"
    /\ UNCHANGED << config, use_rest_api, minimized, stop_event, since_check,
                    lhm, current_status, sent, success, tick_unhealthy,
                    proc_seen, probe, probed,
                    offVars >>

\* After the loop: the status override, the timestamp and sock.sendto,
\* whose exception is caught inside send_metrics (send_ok = FALSE).
Emit ==
    /\ pc = "read"
    /\ idx > Len(config)
    /\ \E send_ok \in BOOLEAN :
         /\ payload' = [ payload EXCEPT
                           !.status = OverallStatus(payload.status, stale_count,
                                                    Len(config)),
                           !.timestamp = Timestamp(has_fresh_data) ]
         /\ sent' = sent + 1
         /\ success' = send_ok
    /\ pc' = "sleep"
    /\ UNCHANGED << config, use_rest_api, minimized, stop_event,
                    lhm_health_monitor, last_good_values, since_check, lhm,
                    current_status, idx, has_fresh_data, stale_count,
                    tick_unhealthy, proc_seen, probe, fresh, last_read, probed,
                    offVars >>

\* time.sleep(config["update_interval"]); the iteration's locals end here.
\* The time since last_lhm_check is followed in REST mode only: nothing
\* reads last_lhm_check when use_rest_api is False.
Sleep ==
    /\ pc = "sleep"
    /\ \E d \in 0..MaxDelay :
         since_check' = IF use_rest_api
                        THEN Min(MaxSince, since_check + UPDATE_INTERVAL + d)
                        ELSE since_check
    /\ pc' = "loop"
    /\ current_status' = STATUS_OK
    /\ idx' = 1
    /\ has_fresh_data' = FALSE
    /\ stale_count' = 0
    /\ payload' = NoPayload
    /\ sent' = 0
    /\ success' = FALSE
    /\ tick_unhealthy' = FALSE
    /\ proc_seen' = FALSE
    /\ probe' = "none"
    /\ fresh' = <<>>
    /\ UNCHANGED << config, use_rest_api, minimized, stop_event,
                    lhm_health_monitor, last_good_values, lhm, last_read,
                    probed,
                    offVars >>

\* The tray menu's Quit: on_quit sets the stop event.
OnQuit ==
    /\ minimized
    /\ ~stop_event
    /\ stop_event' = TRUE
    /\ UNCHANGED << config, use_rest_api, minimized, lhm_health_monitor,
                    last_good_values, since_check, lhm, pc, current_status,
                    idx, has_fresh_data, stale_count, payload, sent, success,
                    tick_unhealthy, proc_seen, probe, fresh, last_read, probed,
                    offVars >>

\* The monitored program starts, hangs or stops at any moment.
LhmChange ==
    /\ \E s \in { "up", "hung", "down" } \ { lhm } : lhm' = s
    /\ UNCHANGED << config, use_rest_api, minimized, stop_event,
                    lhm_health_monitor, last_good_values, since_check, pc,
                    current_status, idx, has_fresh_data, stale_count, payload,
                    sent, success, tick_unhealthy, proc_seen, probe, fresh,
                    last_read, probed,
                    offVars >>

Next ==
    \/ LoopExit
    \/ LoopStart
    \/ Probe
    \/ ReadMetric
    \/ Emit
    \/ Sleep
    \/ OnQuit
    \/ LhmChange

Spec == Init /\ [][Next]_vars

\* ------------------------------------------------------------ properties
\* What the iteration's history says about the metrics read so far.
AllStale == \A i \in 1..Len(fresh) : ~fresh[i]
AllFresh == \A i \in 1..Len(fresh) : fresh[i]
AllAlternate == \A i \in 1..Len(config) : config[i].source = "wmi"
\* The iteration has sent its packet and is about to sleep.
Emitted == pc = "sleep"

\* C1: every loop iteration, once it is over, has called sock.sendto exactly
\* once, whatever the health state, the probe outcome and the read outcomes;
\* no iteration ends without its datagram.
C1_EveryIterationSends ==
    pc \in { "sleep", "crashed" } => sent = 1

\* C2: the payload holds exactly one entry per configured metric, in
\* configuration order, each with its metric's id, for every combination of
\* read outcomes.
C2_OneEntryPerMetric ==
    /\ pc = "read" => Len(payload.metrics) = idx - 1
    /\ Emitted => Len(payload.metrics) = Len(config)
    /\ \A i \in 1..Len(payload.metrics) : payload.metrics[i].id = config[i].id

\* C2 witness: a packet of at least two entries sent in a tick in which
\* every read failed and nothing was ever cached.
C2_Witness ==
    /\ Emitted
    /\ Len(config) >= 2
    /\ Len(fresh) = Len(config) /\ AllStale
    /\ \A i \in 1..MaxMetrics : last_good_values[i] = None
    /\ Len(payload.metrics) = Len(config)

\* C3: the cache always holds, per id, the most recent successfully read
\* value (a failed read leaves it alone), and the value emitted for a metric
\* whose read failed is that value, or 0 when the id was never read.
C3_StaleValueIsLastGood ==
    /\ last_good_values = last_read
    /\ \A i \in 1..Len(fresh) :
         ~fresh[i] =>
            /\ i <= Len(payload.metrics)
            /\ payload.metrics[i].value =
                 IF last_read[config[i].id] = None
                 THEN 0
                 ELSE last_read[config[i].id][1]

\* C3 witness: a packet carrying a non-zero cached value for a failed read.
C3_Witness ==
    /\ Emitted
    /\ \E i \in 1..Len(fresh) :
         /\ ~fresh[i]
         /\ payload.metrics[i].value = 1
         /\ last_read[config[i].id] = Some(1)

\* C4: the emitted timestamp is empty exactly when no metric was read
\* successfully in the tick, and is the HH:MM time otherwise, whatever the
\* status.
C4_TimestampIffFresh ==
    Emitted =>
        /\ (payload.timestamp = "") <=> AllStale
        /\ ~AllStale => payload.timestamp = "HH:MM"

\* C4 witness: a packet with a timestamp and a status other than OK.
C4_Witness ==
    /\ Emitted
    /\ ~AllStale
    /\ payload.timestamp = "HH:MM"
    /\ payload.status # STATUS_OK

\* C5: entered with status OK, send_metrics emits API_ERROR exactly when
\* more than half of the configured metrics were stale, and OK otherwise.
C5_MajorityStale ==
    (Emitted /\ current_status = STATUS_OK) =>
        payload.status = IF 2 * stale_count > Len(config)
                         THEN STATUS_API_ERROR
                         ELSE STATUS_OK

\* C6 (as claimed): in REST mode every packet of a tick that starts
\* Unhealthy and sees no successful probe carries LHM_NOT_RUNNING.
C6_UnhealthyMeansNotRunning ==
    (Emitted /\ use_rest_api /\ tick_unhealthy /\ probe # "ok") =>
        payload.status = STATUS_LHM_NOT_RUNNING

\* C6 (amended): such a packet carries LHM_NOT_RUNNING when the process was
\* not detected at the start of the tick and API_ERROR when it was.
C6_UnhealthyStatusFollowsProcess ==
    (Emitted /\ use_rest_api /\ tick_unhealthy /\ probe # "ok") =>
        payload.status = IF proc_seen
                         THEN STATUS_API_ERROR
                         ELSE STATUS_LHM_NOT_RUNNING

\* C6 witness: an Unhealthy tick whose probe found nothing, sent as
\* LHM_NOT_RUNNING.
C6_Witness ==
    /\ Emitted
    /\ use_rest_api /\ tick_unhealthy
    /\ probe \in { "noproc", "failed" }
    /\ ~proc_seen
    /\ payload.status = STATUS_LHM_NOT_RUNNING

\* C7 (as claimed): with only alternate-source metrics, a poll whose reads
\* all succeed is sent as OK and a poll whose reads all fail as API_ERROR.
C7_OutageIsApiError ==
    (Emitted /\ AllAlternate) =>
        /\ AllFresh => payload.status = STATUS_OK
        /\ AllStale => payload.status = STATUS_API_ERROR

\* C7 (amended): a poll whose reads all fail is sent as API_ERROR, except in
\* REST mode when the tick started Unhealthy with the process not detected
\* and no probe succeeded: that poll is sent as LHM_NOT_RUNNING.
C7_OutageStatus ==
    (Emitted /\ AllAlternate) =>
        /\ AllFresh => payload.status = STATUS_OK
        /\ AllStale =>
             payload.status =
                IF use_rest_api /\ tick_unhealthy /\ probe # "ok" /\ ~proc_seen
                THEN STATUS_LHM_NOT_RUNNING
                ELSE STATUS_API_ERROR

\* C7 witness: the recovery poll of three REST metrics: it began Unhealthy,
\* its probe succeeded, every read was fresh and the packet says OK.
C7_Witness ==
    /\ Emitted
    /\ AllAlternate /\ Len(config) = 3
    /\ use_rest_api /\ tick_unhealthy /\ probe = "ok"
    /\ AllFresh
    /\ payload.status = STATUS_OK

\* C8: no failure of a metric read or of a recovery probe leaves a tick as
\* an exception.
C8_NoExceptionLeavesTick ==
    pc # "crashed"

LoopStep == LoopExit \/ LoopStart \/ Probe \/ ReadMetric \/ Emit \/ Sleep

SpecLive == Spec /\ WF_vars(LoopStep)

\* C15: once monitoring runs on one alternate source, if that source stops
\* answering for good while LibreHardwareMonitor keeps running (lhm = "hung":
\* its other interface may still serve), source selection runs again and the
\* loop ends up on the other source.
C15_SwitchesToOtherSource ==
    /\ (use_rest_api /\ AllAlternate /\ [](~stop_event)
          /\ <>[](lhm = "hung")) => <>(~use_rest_api)
    /\ (~use_rest_api /\ AllAlternate /\ [](~stop_event)
          /\ <>[](lhm = "hung")) => <>use_rest_api

\* ------------------------------------- LHMHealthMonitor, driven directly
\* The polling loop's variables while only the monitor is exercised.
mainVars == << config, use_rest_api, minimized, stop_event, last_good_values,
               since_check, lhm, pc, current_status, idx, has_fresh_data,
               stale_count, payload, sent, success, tick_unhealthy, proc_seen,
               probe, fresh, last_read, probed >>

LoopOff ==
    /\ config = <<>>
    /\ use_rest_api = FALSE
    /\ minimized = FALSE
    /\ stop_event = FALSE
    /\ last_good_values = [ i \in 1..MaxMetrics |-> None ]
    /\ since_check = 0
    /\ lhm = "down"
    /\ pc = "off"
    /\ current_status = STATUS_OK
    /\ idx = 1
    /\ has_fresh_data = FALSE
    /\ stale_count = 0
    /\ payload = NoPayload
    /\ sent = 0
    /\ success = FALSE
    /\ tick_unhealthy = FALSE
    /\ proc_seen = FALSE
    /\ probe = "none"
    /\ fresh = <<>>
    /\ last_read = [ i \in 1..MaxMetrics |-> None ]
    /\ probed = FALSE

\* Seconds between two observations of time.time().
ClockStep == 15

InitHM ==
    /\ LoopOff
    /\ clock = 0
    /\ lhm_health_monitor = NewHealthMonitor(clock)
    /\ last_call = NoCall
    /\ hw = HwOff
    /\ shm = ShmOff
    /\ sel = SelOff
    /\ gen = GenOff
    /\ mm = MmOff

HMRecordSuccess ==
    /\ lhm_health_monitor' = record_success(lhm_health_monitor, clock)
    /\ last_call' = [ name |-> "record_success", result |-> 0 ]
    /\ UNCHANGED << mainVars, clock, hw, shm, sel, gen, mm >>

HMRecordFailure ==
    /\ lhm_health_monitor.consecutive_failures < MaxFailures
    /\ lhm_health_monitor' = record_failure(lhm_health_monitor)
    /\ last_call' = [ name |-> "record_failure", result |-> 0 ]
    /\ UNCHANGED << mainVars, clock, hw, shm, sel, gen, mm >>

HMGetRetryDelay ==
    /\ last_call' = [ name |-> "get_retry_delay",
                      result |-> get_retry_delay(lhm_health_monitor) ]
    /\ UNCHANGED << mainVars, lhm_health_monitor, clock, hw, shm, sel,
                    gen, mm >>

HMShouldPrintWarning ==
    /\ LET r == should_print_warning(lhm_health_monitor, clock)
       IN  /\ lhm_health_monitor' = r[2]
           /\ last_call' = [ name |-> "should_print_warning",
                             result |-> IF r[1] THEN 1 ELSE 0 ]
    /\ UNCHANGED << mainVars, clock, hw, shm, sel, gen, mm >>

HMTimePasses ==
    /\ clock < MaxClockSteps * ClockStep
    /\ clock' = clock + ClockStep
    /\ UNCHANGED << mainVars, lhm_health_monitor, last_call, hw, shm, sel,
                    gen, mm >>

NextHM ==
    \/ HMRecordSuccess
    \/ HMRecordFailure
    \/ HMGetRetryDelay
    \/ HMShouldPrintWarning
    \/ HMTimePasses

SpecHM == InitHM /\ [][NextHM]_vars

\* C10: after any sequence of record_success and record_failure calls on a
\* fresh monitor, is_healthy is False exactly when consecutive_failures is
\* at least 2, and record_success leaves the count 0 and the state Healthy.
C10_UnhealthyIffTwoFailures ==
    /\ ~lhm_health_monitor.is_healthy
         <=> lhm_health_monitor.consecutive_failures >= 2
    /\ last_call.name = "record_success" =>
         /\ lhm_health_monitor.consecutive_failures = 0
         /\ lhm_health_monitor.is_healthy

\* C10 witness: one failure after an earlier success, the monitor still
\* Healthy.
C10_Witness ==
    /\ last_call.name = "record_failure"
    /\ lhm_health_monitor.consecutive_failures = 1
    /\ lhm_health_monitor.is_healthy
    /\ lhm_health_monitor.last_success_time > 0

\* The documented backoff schedule: 3 s up to one failure, then 6, 12, 24,
\* and 30 from the fifth failure on.
RetryDelaySchedule(n) ==
    CASE n <= 1 -> 3
      [] n = 2  -> 6
      [] n = 3  -> 12
      [] n = 4  -> 24
      [] OTHER  -> 30

\* C11: for every failure count n, get_retry_delay returns a value between
\* 3 and 30 that follows the schedule 3, 3, 6, 12, 24, 30, 30, ...; one more
\* failure never lowers it; right after record_success it returns 3.
C11_RetryDelaySchedule ==
    /\ last_call.name = "get_retry_delay" =>
         /\ last_call.result >= 3 /\ last_call.result <= 30
         /\ last_call.result =
              RetryDelaySchedule(lhm_health_monitor.consecutive_failures)
    /\ get_retry_delay(lhm_health_monitor)
         <= get_retry_delay(record_failure(lhm_health_monitor))
    /\ last_call.name = "record_success" =>
         get_retry_delay(lhm_health_monitor) = 3

\* C11 witness: get_retry_delay called after five consecutive failures
\* returned the 30 s cap.
C11_Witness ==
    /\ last_call.name = "get_retry_delay"
    /\ lhm_health_monitor.consecutive_failures = 5
    /\ last_call.result = 30

\* ------------------------------------------- pc_stats_monitor_hwinfo.py
HwSources == { "psutil", "hwinfo", "wmi" }

HwConfigSet ==
    UNION { [ 1..n -> HwSources ] : n \in 1..MaxHwMetrics }

\* get_metric_value of pc_stats_monitor_hwinfo.py.
\*   reader:  "None" (the global hwinfo_reader was never set) or "open"
\*   read_ok: read_readings() / the WMI query went through without raising
\* The HWiNFO and WMI branches catch every exception and return 0.
hwinfo_get_metric_value(source, reader, read_ok, v, psutil_raises) ==
    IF source = "psutil"
    THEN IF psutil_raises
         THEN [ value |-> None, raised |-> TRUE ]
         ELSE [ value |-> Some(v), raised |-> FALSE ]
    ELSE IF source = "hwinfo"
    THEN IF reader = "open" /\ read_ok
         THEN [ value |-> Some(v), raised |-> FALSE ]
         ELSE [ value |-> Some(0), raised |-> FALSE ]
    ELSE IF source = "wmi"
    THEN IF read_ok
         THEN [ value |-> Some(v), raised |-> FALSE ]
         ELSE [ value |-> Some(0), raised |-> FALSE ]
    ELSE [ value |-> Some(0), raised |-> FALSE ]

\* Whether the read behind a metric failed.
HwReadFailed(source, reader, read_ok, psutil_raises) ==
    IF source = "psutil" THEN psutil_raises
    ELSE IF source = "hwinfo" THEN ~(reader = "open" /\ read_ok)
    ELSE ~read_ok

\* What main() leaves in sensor_source: on a start from the saved
\* configuration discover_sensors is not called and the global keeps its
\* None; with --configure, --edit or no saved file discover_sensors ran and
\* set "hwinfo", "wmi", or nothing when both discoveries failed.
HwStartups ==
    { [ path |-> "saved", sensor_source |-> "None" ] }
    \cup { [ path |-> "configured", sensor_source |-> s ] :
             s \in { "None", "hwinfo", "wmi" } }

\* main() up to the call of run_monitoring / run_minimized.
InitHW ==
    /\ LoopOff
    /\ clock = 0
    /\ lhm_health_monitor = NewHealthMonitor(clock)
    /\ last_call = NoCall
    /\ hw \in { [ pc            |-> "start",
                  path          |-> st.path,
                  sensor_source |-> st.sensor_source,
                  minimized     |-> m,
                  reader        |-> "None",
                  config        |-> c,
                  idx           |-> 1,
                  returned      |-> <<>>,
                  failed        |-> <<>> ] :
                st \in HwStartups, m \in BOOLEAN, c \in HwConfigSet }
    /\ shm = ShmOff
    /\ sel = SelOff
    /\ gen = GenOff
    /\ mm = MmOff

\* The head of run_monitoring and of run_minimized: the reader is opened
\* only when sensor_source is "hwinfo"; run_monitoring refuses to start
\* without a source, run_minimized starts its thread anyway.
HwStart ==
    /\ hw.pc = "start"
    /\ IF hw.sensor_source = "hwinfo"
       THEN \E opened \in BOOLEAN :
              hw' = IF opened
                    THEN [ hw EXCEPT !.reader = "open", !.pc = "read" ]
                    ELSE [ hw EXCEPT !.pc = "exit" ]
       ELSE IF hw.sensor_source = "wmi" \/ hw.minimized
       THEN hw' = [ hw EXCEPT !.pc = "read" ]
       ELSE hw' = [ hw EXCEPT !.pc = "exit" ]
    /\ UNCHANGED << mainVars, lhm_health_monitor, clock, last_call, shm,
                    sel, gen, mm >>

\* One pass of the loop in send_metrics.
HwReadMetric ==
    /\ hw.pc = "read"
    /\ hw.idx <= Len(hw.config)
    /\ LET source == hw.config[hw.idx]
       IN  \E v \in Values, read_ok \in BOOLEAN :
           \E psutil_raises \in
                IF source = "psutil" THEN BOOLEAN ELSE { FALSE } :
             LET r == hwinfo_get_metric_value(source, hw.reader, read_ok, v,
                                              psutil_raises)
                 f == HwReadFailed(source, hw.reader, read_ok, psutil_raises)
             IN  hw' = IF r.raised
                       THEN [ hw EXCEPT !.pc = "crashed" ]
                       ELSE [ hw EXCEPT !.idx = @ + 1,
                                        !.returned = Append(@, r.value),
                                        !.failed = Append(@, f) ]
    /\ UNCHANGED << mainVars, lhm_health_monitor, clock, last_call, shm,
                    sel, gen, mm >>

\* sock.sendto, its exception caught.
HwEmit ==
    /\ hw.pc = "read"
    /\ hw.idx > Len(hw.config)
    /\ hw' = [ hw EXCEPT !.pc = "sleep" ]
    /\ UNCHANGED << mainVars, lhm_health_monitor, clock, last_call, shm,
                    sel, gen, mm >>

\* time.sleep(config["update_interval"]), then the next send_metrics.
HwSleep ==
    /\ hw.pc = "sleep"
    /\ hw' = [ hw EXCEPT !.pc = "read", !.idx = 1, !.returned = <<>>,
                         !.failed = <<>> ]
    /\ UNCHANGED << mainVars, lhm_health_monitor, clock, last_call, shm,
                    sel, gen, mm >>

NextHW ==
    \/ HwStart
    \/ HwReadMetric
    \/ HwEmit
    \/ HwSleep

SpecHW == InitHW /\ [][NextHW]_vars

\* C9: for every source tag, a metric whose underlying read failed makes
\* get_metric_value return the unknown outcome (None), never an integer.
C9_FailedReadIsUnknown ==
    \A i \in 1..Len(hw.failed) : hw.failed[i] => hw.returned[i] = None

\* ------------------------------------------- source selection at startup
\* main(): "max_retries = 5 if args.minimized else 1"
MAX_RETRIES == 5

\* What one run of the WMI diagnostics can meet.
\*   module_ok  "import wmi" succeeded
\*   proc       the process scan: "found" | "notfound" | "error" (the scan
\*              itself raised, which check 2 only prints)
\*   ns         the namespace query of discover_wmi_namespaces:
\*              "ok" (sensors) | "zero" (no sensors) | "inaccessible" (raised)
\*   read4      the second query, in check 4: "ok" | "zero" | "error"
\*   rest_ok    check_rest_api_connectivity found at least one sensor
SelEnv ==
    [ module_ok : BOOLEAN,
      proc      : { "found", "notfound", "error" },
      ns        : { "ok", "zero", "inaccessible" },
      read4     : { "ok", "zero", "error" },
      rest_ok   : BOOLEAN ]

\* A namespace discovery that accepts a namespace holding no sensors.
discover_wmi_namespaces_acceptEmpty(ns) ==
    IF ns # "inaccessible" THEN Some("root\\LibreHardwareMonitor") ELSE None

\* discover_wmi_namespaces: the working namespace, or None.
discover_wmi_namespaces(ns) ==
    IF ns = "ok" THEN Some("root\\LibreHardwareMonitor") ELSE None

\* check_wmi_connectivity, entered with the global use_rest_api = rest.
\* Result: the returned success flag, use_rest_api afterwards, and whether
\* check_rest_api_connectivity was called.
check_wmi_connectivity(rest, env) ==
    IF ~env.module_ok
    THEN [ success |-> FALSE, use_rest_api |-> rest, rest_probed |-> FALSE ]
    ELSE IF env.proc = "notfound"
    THEN [ success |-> FALSE, use_rest_api |-> rest, rest_probed |-> FALSE ]
    ELSE IF discover_wmi_namespaces(env.ns) = None
    THEN [ success      |-> env.rest_ok,
           use_rest_api |-> IF env.rest_ok THEN TRUE ELSE rest,
           rest_probed  |-> TRUE ]
    ELSE IF env.read4 = "zero"
    THEN [ success      |-> env.rest_ok,
           use_rest_api |-> IF env.rest_ok THEN TRUE ELSE rest,
           rest_probed  |-> TRUE ]
    ELSE IF env.read4 = "error"
    THEN [ success |-> FALSE, use_rest_api |-> rest, rest_probed |-> FALSE ]
    ELSE [ success |-> TRUE, use_rest_api |-> rest, rest_probed |-> FALSE ]

\* No diagnostics run so far in this step.
NoDiag ==
    [ caller |-> "none", env |-> << >>, rest_before |-> FALSE,
      success |-> FALSE, rest_probed |-> FALSE ]

\* Every variable but use_rest_api and sel.
selFrozen ==
    << config, minimized, stop_event, lhm_health_monitor, last_good_values,
       since_check, lhm, pc, current_status, idx, has_fresh_data, stale_count,
       payload, sent, success, tick_unhealthy, proc_seen, probe, fresh,
       last_read, probed, clock, last_call, hw, shm, gen, mm >>

\* main() after argument parsing: with --configure, --edit or no saved
\* configuration it runs discover_sensors first, otherwise it goes straight
\* to its own detection.
InitSel ==
    /\ LoopOff
    /\ clock = 0
    /\ lhm_health_monitor = NewHealthMonitor(clock)
    /\ last_call = NoCall
    /\ hw = HwOff
    /\ shm = ShmOff
    /\ gen = GenOff
    /\ mm = MmOff
    /\ sel \in { [ pc        |-> p,
                   minimized |-> m,
                   attempt   |-> 0,
                   diag      |-> NoDiag,
                   reported  |-> "none" ] :
                 p \in { "discover", "main" }, m \in BOOLEAN }

\* discover_sensors: the diagnostics, and on failure the report that no
\* hardware sensors are available.
SelDiscover ==
    /\ sel.pc = "discover"
    /\ \E env \in SelEnv :
         LET r == check_wmi_connectivity(use_rest_api, env)
         IN  /\ use_rest_api' = r.use_rest_api
             /\ sel' = [ sel EXCEPT
                   !.pc = "main",
                   !.diag = [ caller      |-> "discover_sensors",
                              env         |-> env,
                              rest_before |-> FALSE,
                              success     |-> r.success,
                              rest_probed |-> r.rest_probed ],
                   !.reported = IF r.success
                                THEN IF r.use_rest_api THEN "rest" ELSE "wmi"
                                ELSE "no_source" ]
    /\ UNCHANGED selFrozen

\* main(): "if not use_rest_api" is False, the detection is skipped.
SelMainSkip ==
    /\ sel.pc = "main"
    /\ use_rest_api
    /\ sel' = [ sel EXCEPT !.pc = "done" ]
    /\ UNCHANGED << use_rest_api, selFrozen >>

\* One attempt of main()'s detection loop: the REST probe first, then the
\* WMI diagnostics, then a retry or the report that no source is available.
SelMainAttempt ==
    /\ sel.pc = "main"
    /\ ~use_rest_api
    /\ LET max_retries == IF sel.minimized THEN MAX_RETRIES ELSE 1
       IN  \E rest_first \in BOOLEAN, env \in SelEnv :
             IF rest_first
             THEN /\ use_rest_api' = TRUE
                  /\ sel' = [ sel EXCEPT !.pc = "done", !.diag = NoDiag,
                                         !.reported = "rest" ]
             ELSE LET r == check_wmi_connectivity(use_rest_api, env)
                      d == [ caller      |-> "main",
                             env         |-> env,
                             rest_before |-> TRUE,
                             success     |-> r.success,
                             rest_probed |-> r.rest_probed ]
                  IN  /\ use_rest_api' = r.use_rest_api
                      /\ sel' =
                           IF r.success
                           THEN [ sel EXCEPT
                                    !.pc = "done", !.diag = d,
                                    !.reported = IF r.use_rest_api
                                                 THEN "rest" ELSE "wmi" ]
                           ELSE IF sel.attempt < max_retries - 1
                           THEN [ sel EXCEPT !.attempt = @ + 1, !.diag = d,
                                             !.reported = "none" ]
                           ELSE [ sel EXCEPT !.pc = "done", !.diag = d,
                                             !.reported = "no_source" ]
    /\ UNCHANGED selFrozen

NextSel ==
    \/ SelDiscover
    \/ SelMainSkip
    \/ SelMainAttempt

SpecSel == InitSel /\ [][NextSel]_vars

\* The last diagnostics run failed on the WMI side for the given reason.
WmiFailed ==
    /\ sel.diag.caller # "none"
    /\ \/ ~sel.diag.env.module_ok
       \/ sel.diag.env.proc = "notfound"
       \/ sel.diag.env.ns # "ok"
       \/ sel.diag.env.read4 # "ok"

\* The last diagnostics run reached a WMI query that returned no sensors.
WmiZeroSensors ==
    /\ sel.diag.caller # "none"
    /\ sel.diag.env.module_ok
    /\ sel.diag.env.proc # "notfound"
    /\ \/ sel.diag.env.ns = "zero"
       \/ sel.diag.env.ns = "ok" /\ sel.diag.env.read4 = "zero"

\* C13: whichever way the WMI probe fails, the REST probe has been attempted
\* by the time the selector reports that no source is usable.
C13_RestTriedBeforeGivingUp ==
    (WmiFailed /\ ~sel.diag.success /\ sel.reported = "no_source") =>
        (sel.diag.rest_probed \/ sel.diag.rest_before)

\* C14: when the WMI query returns zero sensors the selector probes REST,
\* succeeds and sets use_rest_api exactly when that probe found a sensor,
\* and never reports WMI as the working source.
C14_ZeroSensorsFallsBackToRest ==
    WmiZeroSensors =>
        /\ sel.diag.rest_probed
        /\ sel.diag.success <=> sel.diag.env.rest_ok
        /\ use_rest_api <=> sel.diag.env.rest_ok
        /\ sel.reported # "wmi"

\* C14 witness: discover_sensors met a namespace without sensors, the REST
\* probe found sensors and use_rest_api was set.
C14_Witness ==
    /\ sel.diag.caller = "discover_sensors"
    /\ sel.diag.env.module_ok /\ sel.diag.env.proc = "found"
    /\ sel.diag.env.ns = "zero"
    /\ sel.diag.env.rest_ok
    /\ sel.diag.rest_probed /\ sel.diag.success
    /\ use_rest_api
    /\ sel.reported = "rest"

\* ------------------------------------------------------------- strings
\* A Python str is a sequence of one-character strings.
UpperAZ ==
    << "A", "B", "C", "D", "E", "F", "G", "H", "I", "J", "K", "L", "M",
    "N", "O", "P", "Q", "R", "S", "T", "U", "V", "W", "X", "Y", "Z" >>
LowerAZ ==
    << "a", "b", "c", "d", "e", "f", "g", "h", "i", "j", "k", "l", "m",
    "n", "o", "p", "q", "r", "s", "t", "u", "v", "w", "x", "y", "z" >>
Digits == << "0", "1", "2", "3", "4", "5", "6", "7", "8", "9" >>

Take(s, n) == SubSeq(s, 1, Min(n, Len(s)))
Drop(s, n) == SubSeq(s, n + 1, Len(s))

\* str.lower() and str.upper()
LowerChar(c) ==
    IF \E i \in 1..26 : UpperAZ[i] = c
    THEN LowerAZ[CHOOSE i \in 1..26 : UpperAZ[i] = c]
    ELSE c
UpperChar(c) ==
    IF \E i \in 1..26 : LowerAZ[i] = c
    THEN UpperAZ[CHOOSE i \in 1..26 : LowerAZ[i] = c]
    ELSE c
Lower(s) == [ i \in 1..Len(s) |-> LowerChar(s[i]) ]
Upper(s) == [ i \in 1..Len(s) |-> UpperChar(s[i]) ]

\* "key in s"
Contains(key, s) ==
    \E i \in 0..(Len(s) - Len(key)) : SubSeq(s, i + 1, i + Len(key)) = key

\* s.replace(old, new), old not empty
RECURSIVE Replace(_, _, _)
Replace(s, old, new) ==
    IF Len(s) < Len(old) THEN s
    ELSE IF Take(s, Len(old)) = old
    THEN new \o Replace(Drop(s, Len(old)), old, new)
    ELSE << s[1] >> \o Replace(Tail(s), old, new)

\* s.strip(): blanks removed at both ends
RECURSIVE LStrip(_)
LStrip(s) == IF s # << >> /\ s[1] = " " THEN LStrip(Tail(s)) ELSE s
RECURSIVE RStrip(_)
RStrip(s) ==
    IF s # << >> /\ s[Len(s)] = " " THEN RStrip(Take(s, Len(s) - 1)) ELSE s
Strip(s) == RStrip(LStrip(s))

\* s.split(sep) for a one-character separator: always at least one part
RECURSIVE Split(_, _)
Split(s, sep) ==
    IF \A i \in 1..Len(s) : s[i] # sep
    THEN << s >>
    ELSE LET k == CHOOSE i \in 1..Len(s) :
                    s[i] = sep /\ \A j \in 1..(i - 1) : s[j] # sep
         IN  << Take(s, k - 1) >> \o Split(Drop(s, k), sep)

\* s.split(): the words between runs of blanks, none of them empty
SplitWords(s) == SelectSeq(Split(s, " "), LAMBDA w : w # << >>)

\* str(i) for 0 <= i < 100
Str(i) ==
    IF i < 10 THEN << Digits[i + 1] >>
    ELSE << Digits[(i \div 10) + 1], Digits[(i % 10) + 1] >>

\* --------------------------------------- short names, pc_stats_monitor_v2
\* Largest number of records one discovery pass names.
MaxRecords == 2

\* _make_unique_name: "base_name[:10]", "base_name[:8]", "range(1, 100)"
NAME_MAX == 10
SUFFIXED_BASE_MAX == 8
SUFFIX_END == 100

\* String literals of the naming code and of the explored inputs.
S_U == << "_", "U" >>
S_D == << "_", "D" >>
S_upload == << "u", "p", "l", "o", "a", "d" >>
S_sent == << "s", "e", "n", "t" >>
S_download == << "d", "o", "w", "n", "l", "o", "a", "d" >>
S_received == << "r", "e", "c", "e", "i", "v", "e", "d" >>
S_NET == << "N", "E", "T" >>
S_NTD == << "N", "T", "D" >>
S_nic == << "n", "i", "c" >>
S_network == << "n", "e", "t", "w", "o", "r", "k" >>
S_nic_0_throughput_0 ==
    << "/", "n", "i", "c", "/", "0", "/", "t", "h", "r", "o", "u", "g",
    "h", "p", "u", "t", "/", "0" >>
S_nic_0_throughput_1 ==
    << "/", "n", "i", "c", "/", "0", "/", "t", "h", "r", "o", "u", "g",
    "h", "p", "u", "t", "/", "1" >>
S_usb_0_load_0 ==
    << "/", "u", "s", "b", "/", "0", "/", "l", "o", "a", "d", "/", "0" >>
S_usb_0 == << "/", "u", "s", "b", "/", "0" >>
S_Upload_Speed ==
    << "U", "p", "l", "o", "a", "d", " ", "S", "p", "e", "e", "d" >>
S_Download_Speed ==
    << "D", "o", "w", "n", "l", "o", "a", "d", " ", "S", "p", "e", "e",
    "d" >>
S_Speed == << "S", "p", "e", "e", "d" >>
S_cpu == << "c", "p", "u" >>
S_processor == << "p", "r", "o", "c", "e", "s", "s", "o", "r" >>
S_intel == << "i", "n", "t", "e", "l" >>
S_amd_ryzen == << "a", "m", "d", " ", "r", "y", "z", "e", "n" >>
S_CPU_ == << "C", "P", "U", "_" >>
S_gpu == << "g", "p", "u" >>
S_nvidia == << "n", "v", "i", "d", "i", "a" >>
S_geforce == << "g", "e", "f", "o", "r", "c", "e" >>
S_radeon == << "r", "a", "d", "e", "o", "n" >>
S_GPU_ == << "G", "P", "U", "_" >>
S_motherboard == << "m", "o", "t", "h", "e", "r", "b", "o", "a", "r", "d" >>
S_mainboard == << "m", "a", "i", "n", "b", "o", "a", "r", "d" >>
S_chipset == << "c", "h", "i", "p", "s", "e", "t" >>
S_MB_ == << "M", "B", "_" >>
S_nvme == << "n", "v", "m", "e" >>
S_NVM == << "N", "V", "M" >>
S_ssd == << "s", "s", "d" >>
S_SSD == << "S", "S", "D" >>
S_hdd == << "h", "d", "d" >>
S_hard_disk == << "h", "a", "r", "d", " ", "d", "i", "s", "k" >>
S_wd == << "w", "d" >>
S_seagate == << "s", "e", "a", "g", "a", "t", "e" >>
S_HDD == << "H", "D", "D" >>
S_ethernet == << "e", "t", "h", "e", "r", "n", "e", "t" >>
S_wi_fi == << "w", "i", "-", "f", "i" >>
S_CLK == << "C", "L", "K" >>
S_Clock == << "C", "l", "o", "c", "k" >>
S_Frequency == << "F", "r", "e", "q", "u", "e", "n", "c", "y" >>
S_fps == << "f", "p", "s" >>
S_FPS == << "F", "P", "S" >>
S_GPU_FPS == << "G", "P", "U", "_", "F", "P", "S" >>
S_blank2 == << " ", " " >>
S_SENSOR == << "S", "E", "N", "S", "O", "R" >>
S_Core_0_Clock ==
    << "C", "o", "r", "e", " ", "0", " ", "C", "l", "o", "c", "k" >>
S_Core_1_Clock ==
    << "C", "o", "r", "e", " ", "1", " ", "C", "l", "o", "c", "k" >>
S_CPU == << "C", "P", "U" >>
S_Hub == << "H", "u", "b" >>
S_MHz == << "M", "H", "z" >>
S_NET_U == << "N", "E", "T", "_", "U" >>
S_NET_D == << "N", "E", "T", "_", "D" >>

\* _make_unique_name(base_name) with _generated_names = names:
\* the returned name and _generated_names afterwards.
make_unique_name(base_name, names) ==
    LET b == Take(base_name, NAME_MAX)
        candidate(i) ==
            Take((IF Len(b) > SUFFIXED_BASE_MAX
                  THEN Take(b, SUFFIXED_BASE_MAX) ELSE b) \o Str(i), NAME_MAX)
        free == { i \in 1..(SUFFIX_END - 1) : candidate(i) \notin names }
    IN  IF b \notin names
        THEN [ name |-> b, names |-> names \cup { b } ]
        ELSE IF free # { }
        THEN LET i == CHOOSE k \in free : \A m \in free : k <= m
             IN  [ name  |-> candidate(i),
                   names |-> names \cup { candidate(i) } ]
        ELSE [ name |-> b, names |-> names ]

\* A throughput suffix taken from the sub-index whatever the label says.
ThroughputSuffix_indexOnly(name_lower, sensor_idx) ==
    IF sensor_idx = << "0" >> THEN S_U ELSE S_D

\* generate_short_name_from_id, network throughput: "_U" or "_D".
ThroughputSuffix(name_lower, sensor_idx) ==
    IF Contains(S_upload, name_lower) \/ Contains(S_sent, name_lower)
    THEN S_U
    ELSE IF Contains(S_download, name_lower)
            \/ Contains(S_received, name_lower)
    THEN S_D
    ELSE IF sensor_idx = << "0" >> THEN S_U ELSE S_D

\* generate_short_name_from_id, the "nic"/"network" family: the base name.
NetworkBase(device_idx, sensor_idx, sensor_type, name_lower) ==
    LET net_idx == IF device_idx = << "0" >> THEN << >> ELSE device_idx
    IN  IF sensor_type = "throughput"
        THEN S_NET \o net_idx \o ThroughputSuffix(name_lower, sensor_idx)
        ELSE IF sensor_type = "data"
        THEN IF Contains(S_upload, name_lower)
                \/ Contains(S_sent, name_lower)
             THEN S_NTD \o net_idx \o S_U
             ELSE IF Contains(S_download, name_lower)
                     \/ Contains(S_received, name_lower)
             THEN S_NTD \o net_idx \o S_D
             ELSE S_NTD \o net_idx \o << "_" >> \o sensor_idx
        ELSE S_NET \o net_idx \o << "_" >> \o sensor_idx

\* The type abbreviation of the label-based fallback.
TypeSuffix(sensor_type) ==
    CASE sensor_type = "temperature" -> << "T" >>
      [] sensor_type = "fan"         -> << "F" >>
      [] sensor_type = "load"        -> << "%" >>
      [] sensor_type = "power"       -> << "W" >>
      [] sensor_type = "voltage"     -> << "V" >>
      [] sensor_type = "clock"       -> << "C" >>
      [] OTHER                       -> << >>

\* generate_short_name_from_id(sensor_id, sensor_type, sensor_name) with
\* _generated_names = names, for ids whose device is of the network family
\* or of no family (the ids explored name no cpu, gpu, lpc, memory or
\* storage device).  Result: the returned name (None when the function
\* falls off its end), whether it raised, and _generated_names afterwards.
\* The last-resort fallback reads sensor_idx, which is bound only when the
\* id has at least four parts.
generate_short_name_from_id(sensor_id, sensor_type, sensor_name, names) ==
    LET parts == Split(sensor_id, "/")
        name_lower == Lower(sensor_name)
        words == SplitWords(Replace(Replace(sensor_name, << "-" >>, << " " >>),
                                    << "_" >>, << " " >>))
        Unique(base) ==
            LET u == make_unique_name(base, names)
            IN  [ name |-> Some(u.name), raised |-> FALSE, names |-> u.names ]
    IN  IF Len(parts) >= 4
           /\ ( Contains(S_nic, Lower(parts[2]))
                \/ Contains(S_network, Lower(parts[2])) )
        THEN Unique(NetworkBase(parts[3], parts[Len(parts)], sensor_type,
                                name_lower))
        ELSE IF sensor_name # << >> /\ words # << >>
        THEN Unique(Upper(Take(words[1], 4)) \o TypeSuffix(sensor_type))
        ELSE IF Len(parts) >= 2
        THEN IF Len(parts) >= 4
             THEN Unique(Upper(Take(Replace(parts[2], << "-" >>, << >>), 4))
                         \o parts[Len(parts)])
             ELSE [ name |-> None, raised |-> TRUE, names |-> names ]
        ELSE [ name |-> None, raised |-> FALSE, names |-> names ]

\* Sensor ids, types and labels a discovery pass may meet.
SensorIds ==
    { S_nic_0_throughput_0, S_nic_0_throughput_1,
      S_usb_0_load_0, S_usb_0, S_nic }
SensorTypes == { "throughput", "load" }
SensorLabels ==
    { << >>, << "-" >>, S_Upload_Speed, S_Download_Speed, S_Speed }

\* ------------------------------ short names, pc_stats_monitor_hwinfo.py
\* generate_short_name_hwinfo, device detection from the sensor's name.
DevicePrefix(sensor_lower) ==
    IF Contains(S_cpu, sensor_lower) \/ Contains(S_processor, sensor_lower)
       \/ Contains(S_intel, sensor_lower)
       \/ Contains(S_amd_ryzen, sensor_lower)
    THEN S_CPU_
    ELSE IF Contains(S_gpu, sensor_lower) \/ Contains(S_nvidia, sensor_lower)
            \/ Contains(S_geforce, sensor_lower)
            \/ Contains(S_radeon, sensor_lower)
    THEN S_GPU_
    ELSE IF Contains(S_motherboard, sensor_lower)
            \/ Contains(S_mainboard, sensor_lower)
            \/ Contains(S_chipset, sensor_lower)
    THEN S_MB_
    ELSE IF Contains(S_nvme, sensor_lower) THEN S_NVM
    ELSE IF Contains(S_ssd, sensor_lower) THEN S_SSD
    ELSE IF Contains(S_hdd, sensor_lower)
            \/ Contains(S_hard_disk, sensor_lower)
            \/ Contains(S_wd, sensor_lower)
            \/ Contains(S_seagate, sensor_lower)
    THEN S_HDD
    ELSE IF Contains(S_network, sensor_lower)
            \/ Contains(S_ethernet, sensor_lower)
            \/ Contains(S_nic, sensor_lower)
            \/ Contains(S_wi_fi, sensor_lower)
    THEN S_NET
    ELSE << >>

\* generate_short_name_hwinfo(reading_label, sensor_name, sensor_type, unit)
\* for readings of type SENSOR_TYPE_CLOCK ("clock") and SENSOR_TYPE_OTHER
\* ("other", which no branch renames): the branch of the type, the FPS
\* special case, the clean-up and the truncation to 10 characters.
generate_short_name_hwinfo(reading_label, sensor_name, sensor_type, unit) ==
    LET device_prefix == DevicePrefix(Lower(sensor_name))
        label_lower == Lower(reading_label)
        stripped == Strip(reading_label)
        typed ==
            IF sensor_type = "clock"
            THEN IF device_prefix # << >>
                 THEN device_prefix \o S_CLK
                 ELSE Strip(Replace(Replace(stripped, S_Clock, << >>),
                                    S_Frequency, << >>)) \o S_CLK
            ELSE stripped
        special ==
            IF Contains(S_fps, label_lower) \/ Upper(unit) = S_FPS
            THEN IF device_prefix = S_GPU_ THEN S_GPU_FPS ELSE S_FPS
            ELSE typed
        spaced == Replace(Replace(special, S_blank2, << " " >>),
                          << " " >>, << "_" >>)
        cleaned == Replace(Replace(Replace(spaced, << "/" >>, << >>),
                                   << "\\" >>, << >>), << "-" >>, << >>)
        short ==
            IF Len(cleaned) > NAME_MAX
            THEN LET joined == Replace(cleaned, << "_" >>, << >>)
                 IN  IF Len(joined) > NAME_MAX
                     THEN Take(joined, NAME_MAX)
                     ELSE joined
            ELSE cleaned
    IN  IF short # << >> THEN Upper(short) ELSE S_SENSOR

\* Readings a HWiNFO discovery pass may meet; "none" is
\* SENSOR_TYPE_NONE, which discover_sensors skips.
HwLabels == { S_Core_0_Clock, S_Core_1_Clock }
HwSensorNames == { S_CPU, S_Hub }
HwTypes == { "none", "clock", "other" }
HwUnits == { S_MHz }

\* ------------------------------------------------- one discovery pass
NoRecord == [ input |-> << >>, name |-> None, raised |-> FALSE ]

\* Every variable but gen.
genFrozen ==
    << mainVars, lhm_health_monitor, clock, last_call, hw, shm, sel, mm >>

\* Before a pass: _generated_names may hold the names of an earlier pass;
\* the HWiNFO script keeps no such set.
InitNames ==
    /\ LoopOff
    /\ clock = 0
    /\ lhm_health_monitor = NewHealthMonitor(clock)
    /\ last_call = NoCall
    /\ hw = HwOff
    /\ shm = ShmOff
    /\ sel = SelOff
    /\ mm = MmOff
    /\ gen \in { [ pc        |-> "start",
                   path      |-> p,
                   generated |-> g,
                   catalog   |-> << >>,
                   seen      |-> 0,
                   last      |-> NoRecord ] :
                 p \in { "v2" }, g \in { { }, { S_NET_U } } }
            \cup
            { [ pc        |-> "start",
                path      |-> "hwinfo",
                generated |-> { },
                catalog   |-> << >>,
                seen      |-> 0,
                last      |-> NoRecord ] }

\* discover_sensors_via_http / discover_sensors (v2) call
\* reset_generated_names() before their loop; the HWiNFO loop starts as is.
GenStart ==
    /\ gen.pc = "start"
    /\ gen' = [ gen EXCEPT !.pc = "pass",
                           !.generated = IF gen.path = "v2" THEN { } ELSE @ ]
    /\ UNCHANGED genFrozen

\* One sensor of the v2 discovery loops: its short name joins the catalog.
\* The source lists a sensor once: a record differs from the one before.
GenV2Record ==
    /\ gen.pc = "pass"
    /\ gen.path = "v2"
    /\ gen.seen < MaxRecords
    /\ \E sensor_id \in SensorIds, sensor_type \in SensorTypes,
          sensor_name \in SensorLabels :
         /\ << sensor_id, sensor_type, sensor_name >> # gen.last.input
         /\ LET r == generate_short_name_from_id(sensor_id, sensor_type,
                                                 sensor_name, gen.generated)
                rec == [ input  |-> << sensor_id, sensor_type,
                                       sensor_name >>,
                         name   |-> r.name,
                         raised |-> r.raised ]
            IN  gen' = IF r.raised
                       THEN [ gen EXCEPT !.pc = "raised", !.last = rec ]
                       ELSE [ gen EXCEPT !.generated = r.names,
                                         !.catalog = Append(@, r.name),
                                         !.seen = @ + 1,
                                         !.last = rec ]
    /\ UNCHANGED genFrozen

\* One reading of the HWiNFO discovery loop; a reading differs from the one
\* before.
GenHwRecord ==
    /\ gen.pc = "pass"
    /\ gen.path = "hwinfo"
    /\ gen.seen < MaxRecords
    /\ \E reading_label \in HwLabels, sensor_name \in HwSensorNames,
          sensor_type \in HwTypes, unit \in HwUnits :
         /\ << reading_label, sensor_name, sensor_type, unit >>
              # gen.last.input
         /\ LET short_name == generate_short_name_hwinfo(reading_label,
                                  sensor_name, sensor_type, unit)
                rec == [ input  |-> << reading_label, sensor_name,
                                       sensor_type, unit >>,
                         name   |-> Some(short_name),
                         raised |-> FALSE ]
            IN  gen' = IF sensor_type = "none"
                       THEN [ gen EXCEPT !.seen = @ + 1, !.last = NoRecord ]
                       ELSE [ gen EXCEPT
                                !.catalog = Append(@, Some(short_name)),
                                !.seen = @ + 1,
                                !.last = rec ]
    /\ UNCHANGED genFrozen

\* The source has no more records: the pass is over.
GenFinish ==
    /\ gen.pc = "pass"
    /\ gen' = [ gen EXCEPT !.pc = "done" ]
    /\ UNCHANGED genFrozen

NextNames ==
    \/ GenStart
    \/ GenV2Record
    \/ GenHwRecord
    \/ GenFinish

SpecNames == InitNames /\ [][NextNames]_vars

\* C16: within one discovery pass no two catalog entries carry the same
\* short name, whatever the records and whichever source they come from.
C16_ShortNamesUnique ==
    \A i, j \in 1..Len(gen.catalog) :
        i # j => gen.catalog[i] # gen.catalog[j]

\* The record just named is a throughput reading under a network device.
NicThroughput ==
    /\ gen.path = "v2"
    /\ gen.last.input # << >>
    /\ gen.last.input[1] \in { S_nic_0_throughput_0, S_nic_0_throughput_1 }
    /\ gen.last.input[2] = "throughput"

\* The sub-index that ends the sensor id of the record just named.
LastSubIndex == << gen.last.input[1][Len(gen.last.input[1])] >>

StartsWith(s, prefix) == Take(s, Len(prefix)) = prefix

C18_AlwaysANonEmptyName ==
    /\ gen.pc # "raised"
    /\ \A i \in 1..Len(gen.catalog) :
         gen.catalog[i] # None /\ gen.catalog[i] # Some(<< >>)

\* ===================================================================
\* HWiNFOReader: the shared-memory reader of the HWiNFO script
\* ===================================================================

\* Largest element count a header announces.
MaxElements == 2

\* self.shmem_size, the length handed to MapViewOfFile.
shmem_size == 1048576

\* ctypes.sizeof of the three packed structures.
HEADER_SIZE == 4 + 4 + 4 + 8 + 4 + 4 + 4 + 4 + 4 + 4
SENSOR_SIZE == 4 + 4 + 128 + 128
ELEMENT_SIZE == 4 + 4 + 4 + 128 + 128 + 16 + 8 + 8 + 8 + 8

\* A c_uint32 written as its two 16-bit halves << high, low >>.
U32_ZERO == << 0, 0 >>
U32_ALL_ONES == << 65535, 65535 >>
\* 0x53695748, the signature HWiNFO writes.
SIG_SiWH == << 21353, 22344 >>
Signatures == { U32_ZERO, U32_ALL_ONES, SIG_SiWH, << 0, 65535 >> }

\* The signature test of open() with the all-ones case left out.
SignatureInvalid_zeroOnly(sig) == sig = U32_ZERO

\* self.header.dwSignature == 0 or self.header.dwSignature == 0xFFFFFFFF
SignatureInvalid(sig) == sig = U32_ZERO \/ sig = U32_ALL_ONES

\* Section offsets and strides a header may carry: a section right after
\* the header, one whose first reading record ends exactly at the end of
\* the view, and one that starts a header's length before that end.
SectionOffsets ==
    { HEADER_SIZE, shmem_size - ELEMENT_SIZE, shmem_size - HEADER_SIZE }
ElementSizes == { SENSOR_SIZE, ELEMENT_SIZE }
\* The sensor section: right after the header or a header's length before
\* the end of the view, its stride the length of one record.
SensorOffsets == { HEADER_SIZE, shmem_size - HEADER_SIZE }
SensorSizes == { SENSOR_SIZE }
ElementCounts == 0..MaxElements

\* HWiNFO_SHARED_MEM_HEADER as the producer wrote it (version, revision and
\* poll_time are printed or unused and left out).
Headers ==
    [ dwSignature              : Signatures,
      dwOffsetOfSensorSection  : SensorOffsets,
      dwSizeOfSensorElement    : SensorSizes,
      dwNumSensorElements      : ElementCounts,
      dwOffsetOfReadingSection : SectionOffsets,
      dwSizeOfReadingElement   : ElementSizes,
      dwNumReadingElements     : ElementCounts ]

Handle == Some("handle")
NoOp == [ op |-> "none", result |-> "none", sig |-> None ]

\* HWiNFOReader.__init__ next to the operating-system objects it will meet.
NewReader(mutex_exists, segment_exists, view_maps, header) ==
    [ pc             |-> "idle",
      mutex_exists   |-> mutex_exists,
      segment_exists |-> segment_exists,
      view_maps      |-> view_maps,
      segment        |-> header,
      owner          |-> "none",
      shmem_handle   |-> None,
      shmem_view     |-> None,
      mutex          |-> None,
      header         |-> None,
      sensors        |-> 0,
      readings       |-> 0,
      opened         |-> FALSE,
      offset         |-> 0,
      element_size   |-> 0,
      n              |-> 0,
      i              |-> 0,
      reach          |-> 0,
      releases       |-> [ view |-> 0, handle |-> 0, mutex |-> 0 ],
      unlocked       |-> { },
      last           |-> NoOp ]

\* Every variable but shm.
shmFrozen ==
    << mainVars, lhm_health_monitor, clock, last_call, hw, sel, gen, mm >>

InitShm ==
    /\ LoopOff
    /\ clock = 0
    /\ lhm_health_monitor = NewHealthMonitor(clock)
    /\ last_call = NoCall
    /\ hw = HwOff
    /\ sel = SelOff
    /\ gen = GenOff
    /\ mm = MmOff
    /\ shm \in { NewReader(m, s, v, h) :
                 m \in BOOLEAN, s \in BOOLEAN, v \in BOOLEAN, h \in Headers }

OpenResult(result, sig) == [ op |-> "open", result |-> result, sig |-> sig ]

\* win32event.ReleaseMutex(self.mutex) left out.
ReleaseMutex_skipped(r) == r

\* win32event.ReleaseMutex(self.mutex)
ReleaseMutex(r) == [ r EXCEPT !.owner = "none" ]

\* HWiNFOReader.open on a new reader, up to the end of _parse_header.
\* _parse_header waits for the mutex without a timeout, so while the
\* producer holds it the call does not proceed; under the mutex it only
\* casts the view to a header pointer, and self.header = header_ptr.contents
\* shares the view's memory.  Every exception leaves as RuntimeError.
ShmOpen ==
    /\ shm.pc = "idle"
    /\ shm.last.op = "none"
    /\ (shm.mutex_exists /\ shm.segment_exists /\ shm.view_maps)
         => shm.owner # "producer"
    /\ shm' =
         IF ~shm.mutex_exists
         THEN [ shm EXCEPT !.last = OpenResult("error", None) ]
         ELSE IF ~shm.segment_exists
         THEN [ shm EXCEPT !.mutex = Handle,
                           !.last = OpenResult("error", None) ]
         ELSE IF ~shm.view_maps
         THEN [ shm EXCEPT !.mutex = Handle,
                           !.shmem_handle = Handle,
                           !.releases.handle = @ + 1,
                           !.last = OpenResult("error", None) ]
         ELSE ReleaseMutex([ shm EXCEPT !.pc = "open",
                                        !.mutex = Handle,
                                        !.shmem_handle = Handle,
                                        !.shmem_view = Handle,
                                        !.header = Handle ])
    /\ UNCHANGED shmFrozen

\* The rest of open(): the signature test reads self.header.dwSignature,
\* that is the view itself, after _parse_header gave the mutex back.
ShmOpenValidate ==
    /\ shm.pc = "open"
    /\ LET sig == shm.segment.dwSignature
       IN  shm' = [ shm EXCEPT
                      !.pc = "idle",
                      !.unlocked = IF shm.owner = "reader"
                                   THEN @ ELSE @ \cup { "dwSignature" },
                      !.opened = ~SignatureInvalid(sig),
                      !.last = OpenResult(IF SignatureInvalid(sig)
                                          THEN "error" ELSE "ok",
                                          Some(sig)) ]
    /\ UNCHANGED shmFrozen

\* ctypes.sizeof(HWiNFO_SENSOR) or ctypes.sizeof(HWiNFO_ELEMENT)
RecordSize(op) == IF op = "read_sensors" THEN SENSOR_SIZE ELSE ELEMENT_SIZE

\* read_sensors / read_readings up to the loop: the mutex is taken, then
\* offset, stride and count are read from the header in the view.
ShmReadBegin ==
    /\ shm.pc = "idle"
    /\ shm.opened
    /\ shm.owner = "none"
    /\ \E op \in { "read_sensors", "read_readings" } :
         shm' = [ shm EXCEPT
                    !.pc = op,
                    !.owner = "reader",
                    !.offset = IF op = "read_sensors"
                               THEN shm.segment.dwOffsetOfSensorSection
                               ELSE shm.segment.dwOffsetOfReadingSection,
                    !.element_size = IF op = "read_sensors"
                                     THEN shm.segment.dwSizeOfSensorElement
                                     ELSE shm.segment.dwSizeOfReadingElement,
                    !.n = IF op = "read_sensors"
                          THEN shm.segment.dwNumSensorElements
                          ELSE shm.segment.dwNumReadingElements,
                    !.i = 0,
                    !.reach = 0 ]
    /\ UNCHANGED shmFrozen

\* One iteration: ctypes.string_at(shmem_view + offset + i * element_size,
\* sizeof(struct)).  Nothing compares the address with shmem_size; a copy
\* that leaves the view either returns whatever lies behind it or faults,
\* and the fault leaves through the finally clause as an exception.
ShmCopy ==
    /\ shm.pc \in { "read_sensors", "read_readings" }
    /\ shm.i < shm.n
    /\ LET lo == shm.offset + shm.i * shm.element_size
           hi == lo + RecordSize(shm.pc)
           copied == [ shm EXCEPT !.i = @ + 1,
                                  !.reach = IF hi > @ THEN hi ELSE @ ]
           faulted == ReleaseMutex(
                        [ shm EXCEPT !.pc = "idle",
                                     !.last = [ op     |-> shm.pc,
                                                result |-> "error",
                                                sig    |-> None ] ])
       IN  \/ shm' = copied
           \/ hi > shmem_size /\ shm' = faulted
    /\ UNCHANGED shmFrozen

\* The loop is over: the copies replace self.sensors / self.readings and
\* the finally clause releases the mutex.
ShmReadEnd ==
    /\ shm.pc \in { "read_sensors", "read_readings" }
    /\ shm.i = shm.n
    /\ shm' = ReleaseMutex(
                [ shm EXCEPT
                    !.pc = "idle",
                    !.sensors = IF shm.pc = "read_sensors" THEN shm.n ELSE @,
                    !.readings = IF shm.pc = "read_readings" THEN shm.n ELSE @,
                    !.last = [ op |-> shm.pc, result |-> "ok",
                               sig |-> None ] ])
    /\ UNCHANGED shmFrozen

\* HWiNFOReader.close
ShmClose ==
    /\ shm.pc = "idle"
    /\ shm.last.op # "none"
    /\ shm' = [ shm EXCEPT
                  !.shmem_view = None,
                  !.shmem_handle = None,
                  !.mutex = None,
                  !.opened = FALSE,
                  !.releases =
                     [ view   |-> IF shm.shmem_view # None
                                  THEN @.view + 1 ELSE @.view,
                       handle |-> IF shm.shmem_handle # None
                                  THEN @.handle + 1 ELSE @.handle,
                       mutex  |-> IF shm.mutex # None
                                  THEN @.mutex + 1 ELSE @.mutex ],
                  !.last = [ op |-> "close", result |-> "ok", sig |-> None ] ]
    /\ UNCHANGED shmFrozen

\* HWiNFO, the producer: it takes the mutex, may announce other element
\* counts, and gives the mutex back.
ProducerLock ==
    /\ shm.mutex_exists /\ shm.segment_exists
    /\ shm.owner = "none"
    /\ shm' = [ shm EXCEPT !.owner = "producer" ]
    /\ UNCHANGED shmFrozen

ProducerPublish ==
    /\ shm.owner = "producer"
    /\ \E ns \in ElementCounts, nr \in ElementCounts :
         /\ << ns, nr >> # << shm.segment.dwNumSensorElements,
                              shm.segment.dwNumReadingElements >>
         /\ shm' = [ shm EXCEPT !.segment.dwNumSensorElements = ns,
                                !.segment.dwNumReadingElements = nr ]
    /\ UNCHANGED shmFrozen

\* HWiNFO rewrites the signature (it does when sensors are switched off
\* or on again).
ProducerSign ==
    /\ shm.owner = "producer"
    /\ \E sig \in Signatures \ { shm.segment.dwSignature } :
         shm' = [ shm EXCEPT !.segment.dwSignature = sig ]
    /\ UNCHANGED shmFrozen

ProducerUnlock ==
    /\ shm.owner = "producer"
    /\ shm' = [ shm EXCEPT !.owner = "none" ]
    /\ UNCHANGED shmFrozen

NextShm ==
    \/ ShmOpen
    \/ ShmOpenValidate
    \/ ShmReadBegin
    \/ ShmCopy
    \/ ShmReadEnd
    \/ ShmClose
    \/ ProducerLock
    \/ ProducerPublish
    \/ ProducerSign
    \/ ProducerUnlock

SpecShm == InitShm /\ [][NextShm]_vars

\* C19: when the mutex and the segment exist and the view maps, open()
\* has returned success exactly for the header signatures other than 0 and
\* 0xFFFFFFFF, and has ended with an error for those two.
C19_OpenSucceedsIffSignatureValid ==
    ( /\ shm.last.op = "open"
      /\ shm.mutex_exists /\ shm.segment_exists /\ shm.view_maps )
    => /\ shm.last.sig # None
       /\ shm.last.result \in { "ok", "error" }
       /\ (shm.last.result = "error")
            <=> (shm.last.sig \in { Some(U32_ZERO), Some(U32_ALL_ONES) })
       /\ shm.opened <=> (shm.last.result = "ok")

\* open() returned success on a signature that is neither HWiNFO's own nor
\* one of the two rejected values.
C19_Witness ==
    /\ shm.last.op = "open"
    /\ shm.last.result = "ok"
    /\ shm.last.sig = Some(<< 0, 65535 >>)

\* C20: every record read_sensors and read_readings copy lies inside the
\* shmem_size bytes of the mapped view.
C20_CopiesInsideMapping ==
    shm.reach <= shmem_size

CopyOps == { "read_sensors", "read_readings" }

\* C21: the reader owns the mutex exactly while read_sensors or
\* read_readings is in its copy pass: never before the call, never after
\* it has returned or raised.
C21_MutexHeldExactlyForCopyPass ==
    (shm.owner = "reader") <=> (shm.pc \in CopyOps)

\* A copy pass left by an exception, the mutex given back.
C21_Witness ==
    /\ shm.last.op \in CopyOps
    /\ shm.last.result = "error"
    /\ shm.pc = "idle"
    /\ shm.owner = "none"

\* C22: every field of the segment the reader has read, it read while it
\* owned the mutex.
C22_ReadsUnderMutex ==
    shm.unlocked = { }

\* The reader calls read_readings again whenever it can (the polling loop
\* does so every tick), the mutex is handed over fairly, and a call that
\* has begun runs on.
SpecShmLive ==
    /\ SpecShm
    /\ SF_vars(ShmReadBegin)
    /\ WF_vars(ShmOpenValidate \/ ShmCopy \/ ShmReadEnd)

\* C23: an open reader always gets on to its next copy pass (or is
\* closed), whatever the producer does with the mutex.
C23_ReaderNeverWaitsForever ==
    shm.opened ~> (shm.pc \in CopyOps \/ ~shm.opened)

\* C24: after close() the three fields are None and no resource has been
\* released more than once since the reader was constructed.
C24_CloseReleasesEachResourceOnce ==
    (shm.last.op = "close")
    => /\ shm.shmem_view = None
       /\ shm.shmem_handle = None
       /\ shm.mutex = None
       /\ shm.releases.view <= 1
       /\ shm.releases.handle <= 1
       /\ shm.releases.mutex <= 1

\* ===================================================================
\* MetricsModel of the ESP32 configurator
\* ===================================================================
MAX_METRICS == 20

\* Longest "metrics" list from_config_dict is handed.
MaxConfigLen == MAX_METRICS + 1

\* Sensors add_metric is handed: an HWiNFO reading, a psutil metric, and a
\* WMI sensor without identifier, which the duplicate test never matches.
MmSensors ==
    { [ source |-> "hwinfo", key |-> Some(1) ],
      [ source |-> "psutil", key |-> Some(2) ],
      [ source |-> "wmi",    key |-> None ] }

\* The duplicate test of add_metric for one existing metric.
IsDuplicate(sensor, existing) ==
    /\ existing.source = sensor.source
    /\ existing.key = sensor.key
    /\ sensor.source \in { "hwinfo", "wmi" } => sensor.key # None

\* list.pop(index) and list.insert(index, x), index counted from 0.
ListPop(list, index) ==
    SubSeq(list, 1, index) \o SubSeq(list, index + 2, Len(list))
ListInsert(list, index, x) ==
    SubSeq(list, 1, index) \o << x >> \o SubSeq(list, index + 1, Len(list))

\* _renumber_ids left out.
renumber_ids_skipped(metrics) == metrics

\* MetricsModel._renumber_ids
renumber_ids(metrics) ==
    [ i \in 1..Len(metrics) |-> [ metrics[i] EXCEPT !.id = (i - 1) + 1 ] ]

\* Ids a loaded configuration may carry at list position i.
ConfigIds(pattern, i) ==
    IF pattern = "zero" THEN 0
    ELSE IF pattern = "shifted" THEN i + 1
    ELSE MaxConfigLen - i

\* The lists under the "metrics" key of a configuration.
MmConfigs ==
    { [ i \in 1..n |-> [ id     |-> ConfigIds(pattern, i),
                         source |-> "wmi",
                         key    |-> None ] ] :
      n \in 0..MaxConfigLen, pattern \in { "zero", "shifted", "reversed" } }

\* Every variable but mm.
mmFrozen ==
    << mainVars, lhm_health_monitor, clock, last_call, hw, shm, sel, gen >>

MmResult(op, ok) == [ op |-> op, ok |-> ok ]

\* Indices the GUI or a caller may pass: out of range on either side, the
\* first two positions and the last one.
MmIndices(metrics) == { -1, 0, 1, Len(metrics) - 1, Len(metrics) }

\* MetricsModel.__init__
InitMm ==
    /\ LoopOff
    /\ clock = 0
    /\ lhm_health_monitor = NewHealthMonitor(clock)
    /\ last_call = NoCall
    /\ hw = HwOff
    /\ shm = ShmOff
    /\ sel = SelOff
    /\ gen = GenOff
    /\ mm = [ pc |-> "ready", metrics |-> << >>,
              last |-> MmResult("init", TRUE) ]

\* MetricsModel.add_metric
MmAddMetric ==
    /\ mm.pc = "ready"
    /\ \E sensor \in MmSensors :
         LET full == Len(mm.metrics) >= MAX_METRICS
             dup == \E i \in 1..Len(mm.metrics) :
                      IsDuplicate(sensor, mm.metrics[i])
             metric == [ id     |-> Len(mm.metrics) + 1,
                         source |-> sensor.source,
                         key    |-> sensor.key ]
         IN  mm' = IF full \/ dup
                   THEN [ mm EXCEPT !.last = MmResult("add_metric", FALSE) ]
                   ELSE [ mm EXCEPT !.metrics = Append(@, metric),
                                    !.last = MmResult("add_metric", TRUE) ]
    /\ UNCHANGED mmFrozen

\* MetricsModel.remove_metric
MmRemoveMetric ==
    /\ mm.pc = "ready"
    /\ \E index \in MmIndices(mm.metrics) :
         mm' = IF 0 <= index /\ index < Len(mm.metrics)
               THEN [ mm EXCEPT
                        !.metrics = renumber_ids(ListPop(@, index)),
                        !.last = MmResult("remove_metric", TRUE) ]
               ELSE [ mm EXCEPT
                        !.last = MmResult("remove_metric", FALSE) ]
    /\ UNCHANGED mmFrozen

\* MetricsModel.move_metric
MmMoveMetric ==
    /\ mm.pc = "ready"
    /\ \E from_index \in MmIndices(mm.metrics),
          to_index \in MmIndices(mm.metrics) :
         mm' = IF /\ 0 <= from_index /\ from_index < Len(mm.metrics)
                  /\ 0 <= to_index /\ to_index < Len(mm.metrics)
               THEN [ mm EXCEPT
                        !.metrics =
                           renumber_ids(
                             ListInsert(ListPop(@, from_index), to_index,
                                        @[from_index + 1])),
                        !.last = MmResult("move_metric", TRUE) ]
               ELSE [ mm EXCEPT
                        !.last = MmResult("move_metric", FALSE) ]
    /\ UNCHANGED mmFrozen

\* MetricsModel.clear_all
MmClearAll ==
    /\ mm.pc = "ready"
    /\ mm' = [ mm EXCEPT !.metrics = << >>,
                         !.last = MmResult("clear_all", TRUE) ]
    /\ UNCHANGED mmFrozen

\* MetricsModel.from_config_dict: the first MAX_METRICS entries, renumbered.
MmFromConfigDict ==
    /\ mm.pc = "ready"
    /\ \E config_metrics \in MmConfigs :
         mm' = [ mm EXCEPT
                   !.metrics =
                      renumber_ids(
                        SubSeq(config_metrics, 1,
                               Min(MAX_METRICS, Len(config_metrics)))),
                   !.last = MmResult("from_config_dict", TRUE) ]
    /\ UNCHANGED mmFrozen

NextMm ==
    \/ MmAddMetric
    \/ MmRemoveMetric
    \/ MmMoveMetric
    \/ MmClearAll
    \/ MmFromConfigDict

SpecMm == InitMm /\ [][NextMm]_vars

\* C25: the model holds at most 20 metrics and the metric at 0-based list
\* position i has id i + 1.
C25_IdsAreListPositions ==
    /\ Len(mm.metrics) <= MAX_METRICS
    /\ \A k \in 1..Len(mm.metrics) : mm.metrics[k].id = (k - 1) + 1

\* A metric was moved inside a full list that holds an HWiNFO metric.
C25_Witness ==
    /\ Len(mm.metrics) = MAX_METRICS
    /\ mm.last.op = "move_metric"
    /\ mm.last.ok
    /\ \E k \in 1..Len(mm.metrics) : mm.metrics[k].source = "hwinfo"

\* ===================================================================
\* The polling loop of pc_stats_monitor_v2.py: stopping and recovery
\* ===================================================================

\* Once the stop event is set it stays set, the loop top leads nowhere but
\* out of the loop, and a thread that has left stays out.
NoTickStartsAfterStop ==
    [][ (minimized /\ stop_event)
        => /\ stop_event'
           /\ pc = "loop" => pc' \in { "loop", "exited" }
           /\ pc = "exited" => pc' = "exited" ]_vars

\* C26: in run_minimized, once the stop event is set the monitoring thread
\* finishes at most the tick under way, then leaves the loop and closes
\* its socket.
C26_StopLeadsToClosedSocket ==
    (minimized /\ stop_event) ~> (pc = "exited")

\* The same, for the threads that no exception has ended.
StopLeadsToClosedSocketUnlessCrashed ==
    (minimized /\ stop_event) ~> (pc \in { "exited", "crashed" })

\* The read just made was of a metric served by the REST interface.
LastReadWasRest ==
    /\ pc = "read"
    /\ idx > 1
    /\ config[idx - 1].source = "wmi"

\* C27: in REST mode, while the health monitor is Unhealthy, reading a
\* REST-sourced metric returns unknown without a request, so the monitor
\* (its failure count included) changes only by a recovery probe that
\* succeeds.
C27_NoRequestsWhileUnhealthy ==
    /\ []( ( /\ use_rest_api
             /\ tick_unhealthy
             /\ probe # "ok"
             /\ pc = "read" )
           => \A i \in 1..Len(fresh) :
                config[i].source = "wmi" => ~fresh[i] )
    /\ [][ (use_rest_api /\ ~lhm_health_monitor.is_healthy)
           => \/ lhm_health_monitor' = lhm_health_monitor
              \/ pc = "probe" /\ lhm_health_monitor'.is_healthy ]_vars

\* A REST-sourced metric was read as unknown in an Unhealthy tick although
\* the endpoint would have answered.
C27_Witness ==
    /\ use_rest_api
    /\ ~lhm_health_monitor.is_healthy
    /\ lhm = "up"
    /\ LastReadWasRest
    /\ ~fresh[idx - 1]

\* The iteration sent a packet with status OK and a timestamp.
EmittedFreshOk ==
    /\ Emitted
    /\ payload.status = STATUS_OK
    /\ has_fresh_data

\* C28: in REST mode, once the endpoint answers again and the process is
\* seen running for good, the monitor becomes Healthy again and packets
\* with status OK and fresh values follow.
C28_RecoversOnceSourceIsBack ==
    (use_rest_api /\ [](~stop_event) /\ <>[](lhm = "up"))
    => /\ <>[](lhm_health_monitor.is_healthy)
       /\ []<>EmittedFreshOk

\* The same, for the loops that no exception has ended.
RecoversOnceSourceIsBackUnlessCrashed ==
    (use_rest_api /\ [](~stop_event) /\ <>[](lhm = "up")
       /\ [](pc # "crashed"))
    => /\ <>[](lhm_health_monitor.is_healthy)
       /\ []<>EmittedFreshOk

\* C29: a packet emitted with status OK carries only values read fresh in
\* that tick.
C29_OkPacketsAreAllFresh ==
    (Emitted /\ payload.status = STATUS_OK)
    => \A i \in 1..Len(fresh) : fresh[i]

\* ===================================================================
\* pc_stats_monitor_hwinfo.py: from main() to the first tick
\* ===================================================================

\* The configuration holds a metric read from HWiNFO's shared memory.
HwHasSharedMemoryMetric ==
    \E i \in 1..Len(hw.config) : hw.config[i] = "hwinfo"

\* C30: monitoring started from a saved configuration never stops for
\* want of a sensor source tag (only because HWiNFO could not be opened),
\* and once its loop runs the tag is set and shared-memory metrics are
\* read from an open reader.
C30_StartupOpensReader ==
    hw.pc # "off"
    => /\ hw.pc = "exit" => hw.sensor_source = "hwinfo"
       /\ hw.pc \in { "read", "sleep" } =>
            /\ hw.sensor_source # "None"
            /\ HwHasSharedMemoryMetric => hw.reader = "open"

====
